---- MODULE Spec2Model ----
(***************************************************************************)
(* A model of the "stink" code quality analyzer: the three entity scorers  *)
(* of src/models/models.ts (FileClass, FunctionClass, VariableClass) and   *)
(* the per-file aggregation of src/index.ts (CodeQualityAnalyzer).         *)
(*                                                                         *)
(* Texts are kept as strings and read as sequences of one-character        *)
(* strings (Chars); indices follow the source (0-based) and are shifted    *)
(* by one only where a TLA+ sequence is indexed.                           *)
(***************************************************************************)
EXTENDS Integers, Sequences, FiniteSets, TLC

VARIABLES
    kind,                       \* which class the instance under test is
    name,                       \* FileClass/FunctionClass/VariableClass.name
    code,                       \* FileClass.code
    functionCode,               \* FunctionClass.functionCode
    value,                      \* VariableClass.value
    stinkLevel,                 \* the instance's private stinkLevel
    issues,                     \* the instance's private issues
    hasHighLevelAbstraction,    \* FunctionClass.hasHighLevelAbstraction
    hasLowLevelAbstraction,     \* FunctionClass.hasLowLevelAbstraction
    directory,                  \* the files findTsFiles finds, in its order
    results,                    \* CodeQualityAnalyzer.results
    report,                     \* what generateReport returned last
    printed,                    \* the interpretation the CLI has printed
    last,                       \* the last public call and what it returned
    calls                       \* public calls made on the instance

vars == <<kind, name, code, functionCode, value, stinkLevel, issues,
          hasHighLevelAbstraction, hasLowLevelAbstraction, directory, results,
          report, printed, last, calls>>

-----------------------------------------------------------------------------
(* Bounds of the model.                                                    *)

\* longest file, in lines, among the enumerated files
MaxLines == 10
\* most separator lines between the two blocks of a two-block file
MaxSep == 2
\* a file is no longer operated on once its stinkLevel has passed this value
MaxStink == 105
\* most public calls made on one function or variable instance
MaxCalls == 2
\* most parameters in the enumerated parameter lists
MaxParams == 5
\* most files in the analysed directory
MaxFiles == 2
\* the function with too many blocks has this many more than allowed
ExtraBlocks == 11

-----------------------------------------------------------------------------
(* Strings.                                                                *)

Chars(s) == [i \in 1..Len(s) |-> SubSeq(s, i, i)]

\* Math.max with the comparison turned round
MaxAsMin(a, b) == IF a <= b THEN a ELSE b

\* Math.max
Max(a, b) == IF a >= b THEN a ELSE b

\* String.prototype.trim's white space, as far as the texts here use it
WhiteSpace == {" ", "\n", "\t", "\r"}

\* the least and the greatest element of a non-empty set of integers
Least(S) == CHOOSE k \in S : \A j \in S : k <= j
Greatest(S) == CHOOSE k \in S : \A j \in S : k >= j

\* the least k in from..Len(cs) with cs[k] = c, or 0
IndexOf(cs, c, from) ==
    LET at == {k \in from..Len(cs) : cs[k] = c}
    IN  IF at = {} THEN 0 ELSE Least(at)

\* s.split(sep) for a one-character separator: the pieces between
\* separators, from position from on
RECURSIVE SplitFrom(_, _, _)
SplitFrom(cs, sep, from) ==
    LET k == IndexOf(cs, sep, from)
    IN  IF k = 0 THEN <<SubSeq(cs, from, Len(cs))>>
        ELSE <<SubSeq(cs, from, k - 1)>> \o SplitFrom(cs, sep, k + 1)

Split(cs, sep) == SplitFrom(cs, sep, 1)

\* pieces.join(sep)
RECURSIVE Join(_, _)
Join(pieces, sep) ==
    IF Len(pieces) = 0 THEN <<>>
    ELSE IF Len(pieces) = 1 THEN pieces[1]
    ELSE pieces[1] \o <<sep>> \o Join(Tail(pieces), sep)

\* s.trim()
RECURSIVE TrimLeft(_)
TrimLeft(cs) ==
    IF Len(cs) > 0 /\ cs[1] \in WhiteSpace THEN TrimLeft(Tail(cs)) ELSE cs

RECURSIVE TrimRight(_)
TrimRight(cs) ==
    IF Len(cs) > 0 /\ cs[Len(cs)] \in WhiteSpace
    THEN TrimRight(SubSeq(cs, 1, Len(cs) - 1)) ELSE cs

Trim(cs) == TrimRight(TrimLeft(cs))

\* an issue message: its fixed wording, the names and the numbers put in it
Issue(msg, names, args) == [msg |-> msg, names |-> names, args |-> args]

-----------------------------------------------------------------------------
(* FileClass.                                                              *)

DUPLICATE_CODE_DEDUCTION == 15
MIN_DUPLICATE_LENGTH == 5
\* blocks whose trimmed text is shorter than this are skipped
MIN_BLOCK_CHARS == 20

\* lines.slice(i, i + MIN_DUPLICATE_LENGTH).join("\n"), i counted from 0
Block(lines, i) ==
    Join(SubSeq(lines, i + 1, i + MIN_DUPLICATE_LENGTH), "\n")

\* the inner loop started at i + 1, so that overlapping windows are compared
FirstDuplicateOfOverlapping(lines, i) ==
    LET blockToCheck == Block(lines, i)
        js == {j \in (i + 1)..(Len(lines) - MIN_DUPLICATE_LENGTH) :
                   blockToCheck = Block(lines, j)}
    IN  IF js = {} THEN -1 ELSE Least(js)

\* the inner loop without its break: the last j that matches, or -1
FirstDuplicateOfUnbroken(lines, i) ==
    LET blockToCheck == Block(lines, i)
        js == {j \in (i + MIN_DUPLICATE_LENGTH)..(Len(lines) - MIN_DUPLICATE_LENGTH) :
                   blockToCheck = Block(lines, j)}
    IN  IF js = {} THEN -1 ELSE Greatest(js)

\* the inner loop: the j at which the scan for block i stops, or -1
FirstDuplicateOf(lines, i) ==
    LET blockToCheck == Block(lines, i)
        js == {j \in (i + MIN_DUPLICATE_LENGTH)..(Len(lines) - MIN_DUPLICATE_LENGTH) :
                   blockToCheck = Block(lines, j)}
    IN  IF js = {} THEN -1 ELSE Least(js)

\* the message with the loop's own zero-based indices
DuplicateIssueZeroBased(i, j) ==
    Issue("Duplicate code block found at lines", <<>>,
          <<i, i + MIN_DUPLICATE_LENGTH - 1, j, j + MIN_DUPLICATE_LENGTH - 1>>)

\* the message pushed for blocks i and j: one-based line ranges
DuplicateIssue(i, j) ==
    Issue("Duplicate code block found at lines", <<>>,
          <<i + 1, i + MIN_DUPLICATE_LENGTH, j + 1, j + MIN_DUPLICATE_LENGTH>>)

\* the outer loop from start index i on: the issues pushed, in order
RECURSIVE DuplicateScan(_, _)
DuplicateScan(lines, i) ==
    IF i > Len(lines) - MIN_DUPLICATE_LENGTH THEN <<>>
    ELSE IF Len(Trim(Block(lines, i))) < MIN_BLOCK_CHARS
         THEN DuplicateScan(lines, i + 1)
    ELSE LET j == FirstDuplicateOf(lines, i)
         IN  IF j = -1 THEN DuplicateScan(lines, i + 1)
             ELSE <<DuplicateIssue(i, j)>> \o DuplicateScan(lines, i + 1)

\* what one run of checkDuplicateCode pushes onto this.issues
DuplicateIssues(text) == DuplicateScan(Split(Chars(text), "\n"), 0)

\* the score without its lower bound
CleanScoreUnclamped(stink) == 100 - stink

\* Math.max(0, baseScore - this.stinkLevel)
CleanScore(stink) == Max(0, 100 - stink)

-----------------------------------------------------------------------------
(* FunctionClass: the textual rules.                                       *)

MAX_LINES == 10
MAX_LINES_VIOLATION_DEDUCTION == 10
MAX_BLOCKS == 10
MAX_BLOCKS_VIOLATION_DEDUCTION == 10
MAX_PARAMETERS == 3
MAX_PARAMETERS_VIOLATION_DEDUCTION == 5
FUNCTION_NAME_VIOLATION_DEDUCTION == 10
ABSTRACTION_LEVEL_VIOLATION_DEDUCTION == 15
BOOLEAN_PARAMETER_DEDUCTION == 5
GLOBAL_VARIABLE_DEDUCTION == 10
MUTABLE_OBJECT_DEDUCTION == 8
UNENCAPSULATED_CONDITION_DEDUCTION == 5
NEGATIVE_CONDITIONAL_DEDUCTION == 3

ACCEPTABLE_VERBS ==
    {"get", "set", "fetch", "calculate", "update", "delete", "generate",
     "create", "filter", "handle", "process", "validate", "convert", "find",
     "remove", "add", "save", "load"}

LowerLetters == Chars("abcdefghijklmnopqrstuvwxyz")
UpperLetters == Chars("ABCDEFGHIJKLMNOPQRSTUVWXYZ")
Digits == Chars("0123456789")

Range(f) == {f[i] : i \in DOMAIN f}

IsLower(c) == c \in Range(LowerLetters)
IsUpper(c) == c \in Range(UpperLetters)
IsDigit(c) == c \in Range(Digits)
\* the regular expression class \w
IsWord(c) == IsLower(c) \/ IsUpper(c) \/ IsDigit(c) \/ c = "_"
\* the regular expression class \s
IsSpace(c) == c \in WhiteSpace

\* String.prototype.toLowerCase, one character
ToLowerChar(c) ==
    IF IsUpper(c)
    THEN LowerLetters[CHOOSE i \in 1..26 : UpperLetters[i] = c]
    ELSE c

ToLower(cs) == [i \in 1..Len(cs) |-> ToLowerChar(cs[i])]

\* whether pat occurs in cs at position k
OccursAt(cs, pat, k) ==
    /\ k >= 1
    /\ k + Len(pat) - 1 <= Len(cs)
    /\ \A i \in 1..Len(pat) : cs[k + i - 1] = pat[i]

\* the least k in from..to at which pat occurs, or 0
FindIn(cs, pat, from, to) ==
    LET at == {k \in from..to : OccursAt(cs, pat, k)}
    IN  IF at = {} THEN 0 ELSE Least(at)

Contains(cs, pat) == FindIn(cs, pat, 1, Len(cs)) # 0

\* functionCode.match(/\(([^)]*)\)/): the first "(" that a ")" follows, and
\* the text up to the first ")" after it
ParameterMatch(cs) ==
    LET open == IndexOf(cs, "(", 1)
        close == IF open = 0 THEN 0 ELSE IndexOf(cs, ")", open + 1)
    IN  [found |-> close # 0,
         text |-> IF close = 0 THEN <<>> ELSE SubSeq(cs, open + 1, close - 1)]

\* paramText ? paramText.split(",").length : 0
ParameterCount(cs) ==
    LET paramText == Trim(ParameterMatch(cs).text)
    IN  IF Len(paramText) = 0 THEN 0 ELSE Len(Split(paramText, ","))

\* the pattern without its parentheses: "bool" anywhere in the text
BooleanMatchAnywhere(cs) == Contains(ToLower(cs), Chars("bool"))

\* /\(([^)]*bool[^)]*)\)/i matches somewhere
BooleanMatch(cs) ==
    \E open \in 1..Len(cs) :
        /\ cs[open] = "("
        /\ LET close == IndexOf(cs, ")", open + 1)
           IN  /\ close # 0
               /\ FindIn(ToLower(cs), Chars("bool"), open + 1, close - 4) # 0

\* the position at which the run of white space ending at k - 1 starts
SkipSpaceBack(cs, k) ==
    Least({e \in 1..k : \A j \in e..(k - 1) : IsSpace(cs[j])})

\* the position at which the run of word characters ending at k - 1 starts
SkipWordBack(cs, k) ==
    Least({e \in 1..k : \A j \in e..(k - 1) : IsWord(cs[j])})

\* whether /(\w+)\.(\w+)\s*=/ matches with its "=" at position k
DirectAssignmentAt(cs, k) ==
    /\ cs[k] = "="
    /\ LET e == SkipSpaceBack(cs, k)
           w == SkipWordBack(cs, e)
       IN  /\ w < e
           /\ w >= 3
           /\ cs[w - 1] = "."
           /\ IsWord(cs[w - 2])

\* the number of matches of /(\w+)\.(\w+)\s*=\s*/g
DirectAssignments(cs) ==
    Cardinality({k \in 1..Len(cs) : DirectAssignmentAt(cs, k)})

\* /Object\.assign|\.\.\./.test(functionCode)
HasCloning(cs) ==
    Contains(cs, Chars("Object.assign")) \/ Contains(cs, Chars("..."))

\* whether /if\s*\(/ matches with its "(" at position k
IfHeaderAt(cs, k) ==
    /\ k >= 3
    /\ cs[k] = "("
    /\ LET e == SkipSpaceBack(cs, k)
       IN  e >= 3 /\ cs[e - 1] = "f" /\ cs[e - 2] = "i"

\* the position at which the run of white space starting at k + 1 ends
SkipSpace(cs, k) ==
    Greatest({e \in k..Len(cs) : \A j \in (k + 1)..e : IsSpace(cs[j])})

\* the last position of the line that position k is on
LineEnd(cs, k) ==
    LET nl == IndexOf(cs, "\n", k) IN IF nl = 0 THEN Len(cs) ELSE nl - 1

\* the first position of the line that position k is on
LineStart(cs, k) ==
    Least({e \in 1..k : \A j \in e..(k - 1) : cs[j] # "\n"})

\* the last ")" in from..to, or 0
LastClose(cs, from, to) ==
    LET at == {k \in from..to : cs[k] = ")"}
    IN  IF at = {} THEN 0 ELSE Greatest(at)

\* /if\s*\(\s*.+&&.+\|\|.+.+\)/ with its "(" at position k: the position of
\* the ")" the match ends at, or 0. "." matches no line break, so the part
\* after \s* lies on the line of the first character after the white space
\* (or on the line of the "(" when only blanks follow it there).
ComplexConditionAt(cs, k) ==
    IF ~IfHeaderAt(cs, k) \/ k = Len(cs) THEN 0
    ELSE LET first == SkipSpace(cs, k) + 1
             start == IF first > Len(cs) THEN first
                      ELSE Max(k + 1, LineStart(cs, first))
             end == IF first > Len(cs) THEN Len(cs) ELSE LineEnd(cs, first)
             conj == FindIn(cs, Chars("&&"), start + 1, end)
             disj == IF conj = 0 THEN 0
                     ELSE FindIn(cs, Chars("||"), conj + 3, end)
             close == IF disj = 0 THEN 0 ELSE LastClose(cs, disj + 4, end)
         IN  close

\* functionCode.match(/if\s*\(\s*.+&&.+\|\|.+.+\)/g): one match for each
\* line that some "if (" finds its condition on
ComplexConditions(cs) ==
    Cardinality({ComplexConditionAt(cs, k) : k \in 1..Len(cs)} \ {0})

\* whether /if\s*\(\s*!/ matches with its "!" at position k
NegatedGuardAt(cs, k) ==
    /\ cs[k] = "!"
    /\ LET e == SkipSpaceBack(cs, k) IN e >= 2 /\ IfHeaderAt(cs, e - 1)

\* functionCode.match(/if\s*\(\s*!|\!\=|\!\=\=/g): one match for each "!"
\* that ends an "if (" or starts a "!="
NegativeConditionals(cs) ==
    Cardinality({k \in 1..Len(cs) :
                    /\ cs[k] = "!"
                    /\ \/ NegatedGuardAt(cs, k)
                       \/ (k < Len(cs) /\ cs[k + 1] = "=")})

\* /^[a-z][a-zA-Z0-9]*$/.test(str)
IsCamelCase(cs) ==
    /\ Len(cs) >= 1
    /\ IsLower(cs[1])
    /\ \A i \in 2..Len(cs) : IsLower(cs[i]) \/ IsUpper(cs[i]) \/ IsDigit(cs[i])

\* str.split(/(?=[A-Z])/): a new word starts at every capital but the first
\* character
RECURSIVE SplitCamelFrom(_, _, _)
SplitCamelFrom(cs, k, cur) ==
    IF k > Len(cs) THEN <<cur>>
    ELSE IF k > 1 /\ IsUpper(cs[k])
         THEN <<cur>> \o SplitCamelFrom(cs, k + 1, <<cs[k]>>)
    ELSE SplitCamelFrom(cs, k + 1, Append(cur, cs[k]))

SplitCamelCase(cs) == SplitCamelFrom(cs, 1, <<>>)

\* ACCEPTABLE_VERBS.includes(word.toLowerCase())
HasValidVerb(word) ==
    \E v \in ACCEPTABLE_VERBS : Chars(v) = ToLower(word)

\* words.length > 1 && words.every((word) => word.length > 1)
HasDescriptiveParts(words) ==
    Len(words) > 1 /\ \A i \in 1..Len(words) : Len(words[i]) > 1

-----------------------------------------------------------------------------
(* FunctionClass: the rules that walk the syntax tree.  A tree node is a    *)
(* record of its kind, its text (identifiers only) and its children in the  *)
(* order ts.forEachChild visits them.                                       *)

\* a node of the parser's tree: its kind, its children in forEachChild order,
\* the text of an identifier and, where the analyzer asks for it, the node's
\* full text
Node(k, children) ==
    [kind |-> k, text |-> "", children |-> children, fullText |-> ""]
Id(text) ==
    [kind |-> "Identifier", text |-> text, children |-> <<>>, fullText |-> ""]

\* node.body of a function declaration or expression: its Block child
HasBody(node) ==
    \E i \in 1..Len(node.children) : node.children[i].kind = "Block"
Body(node) ==
    node.children[CHOOSE i \in 1..Len(node.children) :
                      node.children[i].kind = "Block"]

Flags(high, low) == [high |-> high, low |-> low]

\* FunctionClass.checkNode, with the two instance flags passed through
RECURSIVE CheckNode(_, _)
RECURSIVE CheckNodes(_, _, _)
CheckNode(node, flags) ==
    LET seen ==
            IF node.kind = "CallExpression" THEN Flags(TRUE, flags.low)
            ELSE IF node.kind \in {"VariableStatement", "ExpressionStatement"}
                 THEN Flags(flags.high, TRUE)
            ELSE flags
    IN  IF seen.high /\ seen.low THEN seen
        ELSE CheckNodes(node.children, 1, seen)

\* ts.forEachChild(node, checkNode), from the i-th child on
CheckNodes(children, i, flags) ==
    IF i > Len(children) THEN flags
    ELSE CheckNodes(children, i + 1, CheckNode(children[i], flags))

\* the traversal of checkAbstractionLevel over the i-th and later top-level
\* nodes of the source file, starting from flags
RECURSIVE AbstractionFrom(_, _, _)
AbstractionFrom(top, i, flags) ==
    IF i > Len(top) THEN flags
    ELSE LET node == top[i]
             after ==
                 IF /\ node.kind \in {"FunctionDeclaration", "FunctionExpression"}
                    /\ HasBody(node)
                 THEN CheckNodes(Body(node).children, 1, flags)
                 ELSE flags
         IN  AbstractionFrom(top, i + 1, after)

\* the flags checkAbstractionLevel leaves behind: reset, then the traversal
AbstractionFlags(tree) == AbstractionFrom(tree.children, 1, Flags(FALSE, FALSE))

\* the visitor of checkGlobalVariables: the identifiers under node, in order
RECURSIVE Identifiers(_)
RECURSIVE IdentifiersOf(_, _)
Identifiers(node) ==
    (IF node.kind = "Identifier" THEN <<node.text>> ELSE <<>>)
        \o IdentifiersOf(node.children, 1)

IdentifiersOf(children, i) ==
    IF i > Len(children) THEN <<>>
    ELSE Identifiers(children[i]) \o IdentifiersOf(children, i + 1)

CommonGlobals == {"window", "document", "console", "localStorage"}

\* identifiers.filter((id) => commonGlobals.includes(id))
FoundGlobals(tree) ==
    SelectSeq(IdentifiersOf(tree.children, 1), LAMBDA id : id \in CommonGlobals)

-----------------------------------------------------------------------------
(* FunctionClass: what each rule adds.  A rule yields the sequence of its   *)
(* hits, each the penalty added to stinkLevel and the issue pushed.         *)

Hit(penalty, issue) == [penalty |-> penalty, issue |-> issue]

\* FunctionClass.checkNumberOfLines
LinesHits(nm, cs) ==
    LET lines == Len(Split(cs, "\n"))
    IN  IF lines > MAX_LINES
        THEN <<Hit(MAX_LINES_VIOLATION_DEDUCTION,
                   Issue("Function has lines", <<nm>>, <<lines, MAX_LINES>>))>>
        ELSE <<>>

\* FunctionClass.checkNumberOfBlocks
BlocksHits(nm, cs) ==
    LET blocks == Len(Split(cs, "{")) - 1
    IN  IF blocks > MAX_BLOCKS
        THEN <<Hit((blocks - MAX_BLOCKS) * MAX_BLOCKS_VIOLATION_DEDUCTION,
                   Issue("Function has code blocks", <<nm>>, <<blocks, MAX_BLOCKS>>))>>
        ELSE <<>>

\* checkNumberOfParameters with a flat deduction
ParametersHitsFlat(nm, cs) ==
    IF ~ParameterMatch(cs).found THEN <<>>
    ELSE LET parameters == ParameterCount(cs)
         IN  IF parameters > MAX_PARAMETERS
             THEN <<Hit(MAX_PARAMETERS_VIOLATION_DEDUCTION,
                        Issue("Function has parameters", <<nm>>,
                              <<parameters, MAX_PARAMETERS>>))>>
             ELSE <<>>

\* checkNumberOfParameters reporting from MAX_PARAMETERS on
ParametersHitsAtLimit(nm, cs) ==
    IF ~ParameterMatch(cs).found THEN <<>>
    ELSE LET parameters == ParameterCount(cs)
         IN  IF parameters >= MAX_PARAMETERS
             THEN <<Hit((parameters - MAX_PARAMETERS) * MAX_PARAMETERS_VIOLATION_DEDUCTION,
                        Issue("Function has parameters", <<nm>>,
                              <<parameters, MAX_PARAMETERS>>))>>
             ELSE <<>>

\* FunctionClass.checkNumberOfParameters
ParametersHits(nm, cs) ==
    IF ~ParameterMatch(cs).found THEN <<>>
    ELSE LET parameters == ParameterCount(cs)
         IN  IF parameters > MAX_PARAMETERS
             THEN <<Hit((parameters - MAX_PARAMETERS) * MAX_PARAMETERS_VIOLATION_DEDUCTION,
                        Issue("Function has parameters", <<nm>>,
                              <<parameters, MAX_PARAMETERS>>))>>
             ELSE <<>>

\* FunctionClass.checkName
NameHits(nm) ==
    LET words == SplitCamelCase(Chars(nm))
    IN  (IF ~IsCamelCase(Chars(nm))
         THEN <<Hit(FUNCTION_NAME_VIOLATION_DEDUCTION,
                    Issue("Function is not using camelCase naming convention",
                          <<nm>>, <<>>))>>
         ELSE <<>>)
        \o
        (IF Len(words) > 0 /\ ~HasValidVerb(words[1])
         THEN <<Hit(FUNCTION_NAME_VIOLATION_DEDUCTION,
                    Issue("Function doesn't start with a valid action verb",
                          <<nm>>, <<>>))>>
         ELSE <<>>)
        \o
        (IF ~HasDescriptiveParts(words)
         THEN <<Hit(FUNCTION_NAME_VIOLATION_DEDUCTION,
                    Issue("Function lacks descriptive naming", <<nm>>, <<>>))>>
         ELSE <<>>)

\* FunctionClass.checkAbstractionLevel, given the flags its traversal leaves
AbstractionHits(nm, flags) ==
    IF flags.high /\ flags.low
    THEN <<Hit(ABSTRACTION_LEVEL_VIOLATION_DEDUCTION,
               Issue("Function mixes different levels of abstraction",
                     <<nm>>, <<>>))>>
    ELSE <<>>

\* FunctionClass.checkBooleanParameters
BooleanHits(nm, cs) ==
    IF BooleanMatch(cs)
    THEN <<Hit(BOOLEAN_PARAMETER_DEDUCTION,
               Issue("Function uses boolean parameters which reduce readability",
                     <<nm>>, <<>>))>>
    ELSE <<>>

\* FunctionClass.checkGlobalVariables
GlobalsHits(nm, tree) ==
    LET foundGlobals == FoundGlobals(tree)
    IN  IF Len(foundGlobals) > 0
        THEN <<Hit(GLOBAL_VARIABLE_DEDUCTION,
                   Issue("Function uses global variables",
                         <<nm>> \o foundGlobals, <<>>))>>
        ELSE <<>>

\* FunctionClass.checkMutableObjects
MutableHits(nm, cs) ==
    LET matches == DirectAssignments(cs)
    IN  IF matches > 0 /\ ~HasCloning(cs) /\ matches > 1
        THEN <<Hit(MUTABLE_OBJECT_DEDUCTION,
                   Issue("Function modifies objects without cloning them first",
                         <<nm>>, <<>>))>>
        ELSE <<>>

\* FunctionClass.checkConditionEncapsulation
ConditionHits(nm, cs) ==
    LET matches == ComplexConditions(cs)
    IN  IF matches > 0
        THEN <<Hit(matches * UNENCAPSULATED_CONDITION_DEDUCTION,
                   Issue("Function has complex conditions that should be encapsulated",
                         <<nm>>, <<matches>>))>>
        ELSE <<>>

\* FunctionClass.checkNegativeConditionals
NegativeHits(nm, cs) ==
    LET matches == NegativeConditionals(cs)
    IN  IF matches > 0
        THEN <<Hit(matches * NEGATIVE_CONDITIONAL_DEDUCTION,
                   Issue("Function uses negative conditionals, prefer positive conditions",
                         <<nm>>, <<matches>>))>>
        ELSE <<>>

RECURSIVE Penalty(_)
Penalty(hits) ==
    IF Len(hits) = 0 THEN 0 ELSE hits[1].penalty + Penalty(Tail(hits))

IssuesOf(hits) == [i \in 1..Len(hits) |-> hits[i].issue]

\* the ten rules of calculateStinkLevel, in its order
PassHits(nm, cs, tree) ==
    LinesHits(nm, cs) \o BlocksHits(nm, cs) \o ParametersHits(nm, cs)
        \o NameHits(nm) \o AbstractionHits(nm, AbstractionFlags(tree))
        \o BooleanHits(nm, cs) \o GlobalsHits(nm, tree) \o MutableHits(nm, cs)
        \o ConditionHits(nm, cs) \o NegativeHits(nm, cs)

\* getCleanLevel without its guard
FunctionNotScoredAlways(stink, found) == TRUE

\* whether FunctionClass.getCleanLevel runs calculateStinkLevel first
FunctionNotScored(stink, found) == stink = 0 /\ Len(found) = 0

-----------------------------------------------------------------------------
(* VariableClass.  A bound value is a record of its runtime kind.           *)

DESCRIPTIVE_NAME_VIOLATION_DEDUCTION == 10
TYPE_MISMATCH_DEDUCTION == 15

\* VARIABLE_TYPE_MARKERS, in the order Object.entries yields them
Marker(m, t) == [marker |-> m, type |-> t]
VARIABLE_TYPE_MARKERS ==
    <<Marker("is", "boolean"), Marker("has", "boolean"),
      Marker("count", "number"), Marker("index", "number"),
      Marker("num", "number"), Marker("str", "string"),
      Marker("arr", "array"), Marker("obj", "object"),
      Marker("map", "map"), Marker("set", "set"), Marker("fn", "function")>>

SingleLetterNames == {"i", "j", "k", "x", "y", "z"}

\* the typeof operator on a bound value
TypeOf(v) ==
    IF v.tag \in {"string", "number", "boolean", "function", "undefined"}
    THEN v.tag
    ELSE "object"

\* the cascade of checkTypeConsistency that sets actualType
ActualType(v) ==
    IF TypeOf(v) = "string" THEN "string"
    ELSE IF TypeOf(v) = "number" THEN "number"
    ELSE IF TypeOf(v) = "boolean" THEN "boolean"
    ELSE IF TypeOf(v) = "function" THEN "function"
    ELSE IF v.tag = "array" THEN "array"
    ELSE IF v.tag # "null" /\ TypeOf(v) = "object"
         THEN IF v.tag = "map" THEN "map"
              ELSE IF v.tag = "set" THEN "set"
              ELSE "object"
    ELSE "string"

\* String.prototype.startsWith and endsWith
StartsWith(cs, m) == OccursAt(cs, m, 1)
EndsWith(cs, m) == OccursAt(cs, m, Len(cs) - Len(m) + 1)

\* the condition under which checkTypeConsistency looks at a marker
MarkerApplies(cs, m) ==
    \/ (StartsWith(cs, m) /\ Len(m) < Len(cs))
    \/ (EndsWith(cs, m) /\ Len(m) < Len(cs))

\* VariableClass.checkTypeConsistency from the i-th marker on: the loop
\* returns at the first marker that applies and mismatches
RECURSIVE TypeHitsFrom(_, _, _)
TypeHitsFrom(nm, v, i) ==
    IF i > Len(VARIABLE_TYPE_MARKERS) THEN <<>>
    ELSE LET entry == VARIABLE_TYPE_MARKERS[i]
         IN  IF /\ MarkerApplies(Chars(nm), Chars(entry.marker))
                /\ ActualType(v) # entry.type
             THEN <<Hit(TYPE_MISMATCH_DEDUCTION,
                        Issue("Variable implies type but contains a value of type",
                              <<nm, entry.type, ActualType(v)>>, <<>>))>>
             ELSE TypeHitsFrom(nm, v, i + 1)

TypeHits(nm, v) == TypeHitsFrom(nm, v, 1)

\* VariableClass.checkDescriptiveName
DescriptiveHits(nm) ==
    IF Len(nm) < 2
    THEN <<Hit(DESCRIPTIVE_NAME_VIOLATION_DEDUCTION,
               Issue("Variable is too short to be descriptive", <<nm>>, <<>>))>>
    ELSE IF Len(nm) = 1 /\ nm \notin SingleLetterNames
    THEN <<Hit(DESCRIPTIVE_NAME_VIOLATION_DEDUCTION,
               Issue("Variable uses non-standard single letter naming",
                     <<nm>>, <<>>))>>
    ELSE IF ~IsCamelCase(Chars(nm))
    THEN <<Hit(DESCRIPTIVE_NAME_VIOLATION_DEDUCTION,
               Issue("Variable should use camelCase naming", <<nm>>, <<>>))>>
    ELSE <<>>

\* the two checks of VariableClass.getStinkLevel, run when stinkLevel is 0
VariableHits(nm, v, stink) ==
    IF stink = 0 THEN DescriptiveHits(nm) \o TypeHits(nm, v) ELSE <<>>

-----------------------------------------------------------------------------
(* The instances under test.                                               *)

\* the lines the enumerated files are made of: two lines that differ in one
\* character, an empty line, and a comment line used as a separator
LongLines == {"abcd", "abce"}
SparseLines == {"abcd", ""}
SeparatorLines == {"", "//"}

RECURSIVE JoinText(_)
JoinText(ls) ==
    IF Len(ls) = 0 THEN ""
    ELSE IF Len(ls) = 1 THEN ls[1]
    ELSE ls[1] \o "\n" \o JoinText(Tail(ls))

LineSeqsOver(S) == UNION {[1..n -> S] : n \in 0..MaxLines}

FiveLineBlocks == [1..MIN_DUPLICATE_LENGTH -> LongLines]

\* a block, one or more separator lines, then the block again or the block
\* with one of its lines replaced
NearBlocks(b) ==
    {d \in FiveLineBlocks :
        Cardinality({k \in 1..MIN_DUPLICATE_LENGTH : d[k] # b[k]}) <= 1}

SeparatorSeqs == UNION {[1..s -> SeparatorLines] : s \in 1..MaxSep}

TwoBlockLineSeqs ==
    UNION {{b \o seps \o c : seps \in SeparatorSeqs, c \in NearBlocks(b)} :
              b \in FiveLineBlocks}

\* a block, the block again or with one of its lines replaced, and the block
\* once more
ThreeBlockLineSeqs ==
    UNION {{b \o c \o b : c \in NearBlocks(b)} : b \in FiveLineBlocks}

FileLineSeqs ==
    LineSeqsOver(LongLines) \cup LineSeqsOver(SparseLines)
        \cup TwoBlockLineSeqs \cup ThreeBlockLineSeqs

FileCodes == {JoinText(ls) : ls \in FileLineSeqs}

\* the function texts under test, each with the tree the TypeScript parser
\* gives for it
Sample(nm, text, tree) == [name |-> nm, functionCode |-> text, tree |-> tree]

SourceFile(statements) ==
    Node("SourceFile", statements \o <<Node("EndOfFileToken", <<>>)>>)

Parameter(nm) == Node("Parameter", <<Id(nm)>>)

FunctionDeclaration(nm, parameters, statements) ==
    Node("FunctionDeclaration",
         <<Id(nm)>> \o parameters \o <<Node("Block", statements)>>)

CallStatement(callee, arguments) ==
    Node("ExpressionStatement", <<Node("CallExpression", <<callee>> \o arguments)>>)

PropertyAccess(object, property) ==
    Node("PropertyAccessExpression", <<Id(object), Id(property)>>)

Binary(left, token, right) ==
    Node("BinaryExpression", <<left, Node(token, <<>>), right>>)

AssignStatement(object, property) ==
    Node("ExpressionStatement",
         <<Binary(PropertyAccess(object, property), "EqualsToken",
                  Node("NumericLiteral", <<>>))>>)

RECURSIVE Repeat(_, _)
Repeat(text, n) == IF n = 0 THEN "" ELSE text \o Repeat(text, n - 1)

\* n empty blocks, one after the other
EmptyBlocks(n) == [i \in 1..n |-> Node("Block", <<>>)]

CleanSample ==
    Sample("getUser", "function getUser(id) {\n  return id;\n}",
           SourceFile(<<FunctionDeclaration("getUser", <<Parameter("id")>>,
               <<Node("ReturnStatement", <<Id("id")>>)>>)>>))

MixedSample ==
    Sample("saveAll",
           "function saveAll(items) {\n  const total = items.length;\n  store(total);\n}",
           SourceFile(<<FunctionDeclaration("saveAll", <<Parameter("items")>>,
               <<Node("VariableStatement",
                      <<Node("VariableDeclarationList",
                             <<Node("VariableDeclaration",
                                    <<Id("total"), PropertyAccess("items", "length")>>)>>)>>),
                 CallStatement(Id("store"), <<Id("total")>>)>>)>>))

BooleanSample ==
    Sample("setFlag", "function setFlag(flag: boolean) {}",
           SourceFile(<<FunctionDeclaration("setFlag",
               <<Node("Parameter", <<Id("flag"), Node("BooleanKeyword", <<>>)>>)>>,
               <<>>)>>))

GlobalsSample ==
    Sample("loadPage", "function loadPage() {\n  console.log(document);\n}",
           SourceFile(<<FunctionDeclaration("loadPage", <<>>,
               <<CallStatement(PropertyAccess("console", "log"),
                               <<Id("document")>>)>>)>>))

DeepSample ==
    Sample("getDeep",
           "function getDeep() {" \o Repeat("{}", MAX_BLOCKS + ExtraBlocks - 1)
               \o "}",
           SourceFile(<<FunctionDeclaration("getDeep", <<>>,
               EmptyBlocks(MAX_BLOCKS + ExtraBlocks - 1))>>))

LongSample ==
    Sample("getLong", "function getLong() {" \o Repeat("\n", MAX_LINES + 1) \o "}",
           SourceFile(<<FunctionDeclaration("getLong", <<>>, <<>>)>>))

ConditionsSample ==
    Sample("updateAll",
           "function updateAll(a, b) {\n  if (!a) { b.x = 1; b.y = 2; }\n  if (a && b || a != b) { return; }\n}",
           SourceFile(<<FunctionDeclaration("updateAll",
               <<Parameter("a"), Parameter("b")>>,
               <<Node("IfStatement",
                      <<Node("PrefixUnaryExpression", <<Id("a")>>),
                        Node("Block", <<AssignStatement("b", "x"),
                                        AssignStatement("b", "y")>>)>>),
                 Node("IfStatement",
                      <<Binary(Binary(Id("a"), "AmpersandAmpersandToken", Id("b")),
                               "BarBarToken",
                               Binary(Id("a"), "ExclamationEqualsToken", Id("b"))),
                        Node("Block", <<Node("ReturnStatement", <<>>)>>)>>)>>)>>))

SnakeSample ==
    Sample("Fetch_User", "function Fetch_User() {}",
           SourceFile(<<FunctionDeclaration("Fetch_User", <<>>, <<>>)>>))

ShortSample ==
    Sample("x", "function x() {}",
           SourceFile(<<FunctionDeclaration("x", <<>>, <<>>)>>))

\* five blocks more than checkNumberOfBlocks allows
HalfSample ==
    Sample("getHalf", "function getHalf() {" \o Repeat("{}", MAX_BLOCKS + 4) \o "}",
           SourceFile(<<FunctionDeclaration("getHalf", <<>>,
               EmptyBlocks(MAX_BLOCKS + 4))>>))

\* a class method: its text alone parses as a call statement and a block
MethodSample ==
    Sample("process", "\n  process(item) {\n    const x = 1;\n    run(x);\n  }",
           SourceFile(<<CallStatement(Id("process"), <<Id("item")>>),
               Node("Block",
                    <<Node("VariableStatement",
                           <<Node("VariableDeclarationList",
                                  <<Node("VariableDeclaration",
                                         <<Id("x"), Node("NumericLiteral", <<>>)>>)>>)>>),
                      CallStatement(Id("run"), <<Id("x")>>)>>)>>))

\* an arrow function bound to a variable: the text of its initializer
ArrowSample ==
    Sample("handleClick", " (e) => {\n  notify(e);\n}",
           SourceFile(<<Node("ExpressionStatement",
               <<Node("ArrowFunction",
                      <<Parameter("e"), Node("EqualsGreaterThanToken", <<>>),
                        Node("Block",
                             <<CallStatement(Id("notify"), <<Id("e")>>)>>)>>)>>)>>))

\* const nm = <initializer>;
Declare(nm, initializer) ==
    Node("VariableStatement",
         <<Node("VariableDeclarationList",
                <<Node("VariableDeclaration", <<Id(nm), initializer>>)>>)>>)

\* a function declared in the body of another: its full text starts with
\* the line break and the indentation before it
InnerSample ==
    Sample("readRow",
           "\n  function readRow() {\n    const cell = 2;\n    return cell;\n  }",
           SourceFile(<<FunctionDeclaration("readRow", <<>>,
               <<Declare("cell", Node("NumericLiteral", <<>>)),
                 Node("ReturnStatement", <<Id("cell")>>)>>)>>))

NestedSample ==
    Sample("loadAll",
           "function loadAll() {\n  const Row_count = 1;"
               \o InnerSample.functionCode \o "\n  return readRow;\n}",
           SourceFile(<<FunctionDeclaration("loadAll", <<>>,
               <<Declare("Row_count", Node("NumericLiteral", <<>>)),
                 [InnerSample.tree.children[1]
                     EXCEPT !.fullText = InnerSample.functionCode],
                 Node("ReturnStatement", <<Id("readRow")>>)>>)>>))

\* an arrow function whose one parameter is written without parentheses
ParenlessSample ==
    Sample("getReady", "isBool => window.ready",
           SourceFile(<<Node("ExpressionStatement",
               <<Node("ArrowFunction",
                      <<Parameter("isBool"), Node("EqualsGreaterThanToken", <<>>),
                        PropertyAccess("window", "ready")>>)>>)>>))

\* n parameters named p, separated by sep
RECURSIVE ParameterList(_, _)
ParameterList(n, sep) ==
    IF n = 0 THEN ""
    ELSE IF n = 1 THEN "p"
    ELSE "p" \o sep \o ParameterList(n - 1, sep)

ParameterSample(n, list) ==
    Sample("getSum", "function getSum(" \o list \o ") {}",
           SourceFile(<<FunctionDeclaration("getSum",
               [i \in 1..n |-> Parameter("p")], <<>>)>>))

\* signatures of 0..MaxParams parameters, an all-blank list, and lists that
\* end in a comma
ParameterSamples ==
    {ParameterSample(n, ParameterList(n, sep)) :
        n \in 0..MaxParams, sep \in {",", ", "}}
    \cup {ParameterSample(0, " ")}
    \cup {ParameterSample(n, ParameterList(n, ", ") \o ",") : n \in 1..MaxParams}

FunctionSamples ==
    {CleanSample, MixedSample, BooleanSample, GlobalsSample, DeepSample,
     LongSample, ConditionsSample, SnakeSample, ShortSample, HalfSample,
     MethodSample, ArrowSample, InnerSample, NestedSample,
     ParenlessSample}
        \cup ParameterSamples

\* ts.createSourceFile("temp.ts", functionCode, ...): the parser's tree
CreateSourceFile(text) ==
    (CHOOSE sample \in FunctionSamples :
        TrimLeft(Chars(sample.functionCode)) = TrimLeft(Chars(text))).tree

\* the variables under test
VariableNames ==
    {"isActive", "is", "hasItems", "userCount", "count", "strcount",
     "strName", "objmap", "total", "My_var", "i", "q", ""}

ValueTags ==
    {"string", "number", "boolean", "function", "array", "object", "map",
     "set", "null", "undefined"}

Values == {[tag |-> t] : t \in ValueTags}

NoValue == [tag |-> "undefined"]

NoCall == [op |-> "new", ret |-> -1, ok |-> FALSE]

\* a number held as a fraction
Ratio(num, den) == [num |-> num, den |-> den]

\* a report: the lines of its summary and, file by file in the order they
\* are listed, the lines of its files; none has been generated
Report(done, summary, files) ==
    [done |-> done, summary |-> summary, files |-> files]

Summary(files, functions, found, average) ==
    [files |-> files, functions |-> functions, issues |-> found,
     average |-> average]

NoReport == Report(FALSE, Summary(0, 0, 0, 0), <<>>)

\* this.results as the constructor of CodeQualityAnalyzer leaves it
NoResults ==
    [files |-> <<>>, averageCleanLevel |-> Ratio(0, 1), fileCount |-> 0,
     functionCount |-> 0, issueCount |-> 0]

Call(op, ret, ok) == [op |-> op, ret |-> ret, ok |-> ok]

-----------------------------------------------------------------------------
(* CodeQualityAnalyzer.                                                    *)

\* the files under analysis: the text fs.readFileSync returns and the tree
\* ts.createSourceFile gives for it
SourceText(text, tree) == [text |-> text, tree |-> tree]

\* node with the text node.getFullText returns for it
WithText(node, text) == [node EXCEPT !.fullText = text]

\* the function declaration of a sample
DeclarationOf(sample) == sample.tree.children[1]

\* a file of function declarations, one after the other on lines of their
\* own: the full text of every declaration but the first starts with the
\* line break before it
RECURSIVE JoinSamples(_)
JoinSamples(samples) ==
    IF Len(samples) = 0 THEN ""
    ELSE IF Len(samples) = 1 THEN samples[1].functionCode
    ELSE samples[1].functionCode \o "\n" \o JoinSamples(Tail(samples))

FunctionsFile(samples) ==
    SourceText(JoinSamples(samples),
        SourceFile([i \in 1..Len(samples) |->
            WithText(DeclarationOf(samples[i]),
                     (IF i = 1 THEN "" ELSE "\n") \o samples[i].functionCode)]))

\* a file of statements that are no functions, one identifier a line
StatementsFile(lines) ==
    SourceText(JoinText(lines),
        SourceFile([i \in 1..Len(lines) |->
            Node("ExpressionStatement", <<Id(lines[i])>>)]))

\* class Worker { process(item) {...} }
ClassFile ==
    SourceText("class Worker {" \o MethodSample.functionCode \o "\n}",
        SourceFile(<<Node("ClassDeclaration",
            <<Id("Worker"),
              WithText(Node("MethodDeclaration",
                            <<Id("process"), Parameter("item"),
                              MethodSample.tree.children[2]>>),
                       MethodSample.functionCode)>>)>>))

\* const handleClick = (e) => {...};
ArrowFile ==
    SourceText("const handleClick =" \o ArrowSample.functionCode \o ";",
        SourceFile(<<Node("VariableStatement",
            <<Node("VariableDeclarationList",
                <<Node("VariableDeclaration",
                    <<Id("handleClick"),
                      WithText(ArrowSample.tree.children[1].children[1],
                               ArrowSample.functionCode)>>)>>)>>)>>))

\* the files there are, in the order a directory lists them
FileNames ==
    <<"arrow.ts", "class.ts", "clean.ts", "copies.ts", "deep.ts", "empty.ts",
      "half.ts", "lines.ts", "long.ts", "mixed.ts", "nested.ts", "pair.ts",
      "three.ts">>

\* fs.readFileSync(filePath) and ts.createSourceFile(fileName, fileContent)
ReadFile(fileName) ==
    CASE fileName = "empty.ts" -> StatementsFile(<<>>)
      [] fileName = "lines.ts" -> StatementsFile([i \in 1..10 |-> "abcd"])
      [] fileName = "clean.ts" -> FunctionsFile(<<CleanSample>>)
      [] fileName = "half.ts" -> FunctionsFile(<<HalfSample>>)
      [] fileName = "pair.ts" -> FunctionsFile(<<CleanSample, HalfSample>>)
      [] fileName = "copies.ts" -> StatementsFile([i \in 1..13 |-> "abcd"])
      [] fileName = "deep.ts" -> FunctionsFile(<<DeepSample>>)
      [] fileName = "mixed.ts" ->
             FunctionsFile(<<CleanSample, ParameterSample(0, ""), DeepSample>>)
      [] fileName = "nested.ts" -> FunctionsFile(<<NestedSample>>)
      [] fileName = "long.ts" -> FunctionsFile(<<LongSample, LongSample>>)
      [] fileName = "three.ts" ->
             FunctionsFile(<<CleanSample, MixedSample, ShortSample>>)
      [] fileName = "class.ts" -> ClassFile
      [] fileName = "arrow.ts" -> ArrowFile

\* the directories findTsFiles walks: each holds some of the files, and
\* findTsFiles returns them in the listing's order
Directories ==
    {[k \in 1..Cardinality(held) |->
         FileNames[CHOOSE i \in held : Cardinality({j \in held : j <= i}) = k]] :
        held \in {S \in SUBSET (1..Len(FileNames)) : Cardinality(S) <= MaxFiles}}

\* fractions in lowest terms: sum, and product with p / q
RECURSIVE Gcd(_, _)
Gcd(a, b) == IF b = 0 THEN a ELSE Gcd(b, a % b)

Reduce(num, den) ==
    LET d == Gcd(num, den) IN Ratio(num \div d, den \div d)

Plus(a, b) == Reduce(a.num * b.den + b.num * a.den, a.den * b.den)
Scale(a, p, q) == Reduce(a.num * p, a.den * q)

\* new FunctionClass(name, codeFile, functionCode)
NewFunction(nm, text) ==
    [name |-> nm, functionCode |-> text, stinkLevel |-> 0, issues |-> <<>>,
     hasHighLevelAbstraction |-> FALSE, hasLowLevelAbstraction |-> FALSE]

\* functionObj.calculateStinkLevel()
CalculateStinkLevel(fn) ==
    LET tree == CreateSourceFile(fn.functionCode)
        flags == AbstractionFlags(tree)
        hits == PassHits(fn.name, Chars(fn.functionCode), tree)
    IN  [fn EXCEPT !.stinkLevel = @ + Penalty(hits),
                   !.issues = @ \o IssuesOf(hits),
                   !.hasHighLevelAbstraction = flags.high,
                   !.hasLowLevelAbstraction = flags.low]

\* node.name of a declaration, when it is an identifier
HasName(node) ==
    Len(node.children) > 0 /\ node.children[1].kind = "Identifier"
NameOf(node) == node.children[1].text

\* node.initializer of a variable declaration
HasInitializer(node) == Len(node.children) > 1
Initializer(node) == node.children[Len(node.children)]

\* new VariableClass(name, value, functionObj): the value is always a text
NewVariable(nm) ==
    [name |-> nm, value |-> [tag |-> "string"], stinkLevel |-> 0,
     issues |-> <<>>]

\* extractVariables: the visitor over the i-th and later children
RECURSIVE ExtractFrom(_, _)
ExtractFrom(children, i) ==
    IF i > Len(children) THEN <<>>
    ELSE LET node == children[i]
         IN  (IF node.kind = "VariableDeclaration" /\ HasName(node)
              THEN <<NewVariable(NameOf(node))>> ELSE <<>>)
                 \o ExtractFrom(node.children, 1)
                 \o ExtractFrom(children, i + 1)

ExtractVariables(node) == ExtractFrom(node.children, 1)

\* functionObj.getCleanLevel(): the instance as the call leaves it
GetCleanLevelOf(fn) ==
    IF FunctionNotScored(fn.stinkLevel, fn.issues)
    THEN CalculateStinkLevel(fn) ELSE fn

\* the entry pushed for a function that has been scored and read
FunctionEntry(fn, node) ==
    [function |-> fn, variables |-> ExtractVariables(node),
     cleanLevel |-> CleanScore(fn.stinkLevel), issues |-> fn.issues]

\* the entry analyzeFile pushes for one function: scored, its variables
\* extracted, then its clean level read
FunctionAnalysis(nm, text, node) ==
    FunctionEntry(GetCleanLevelOf(CalculateStinkLevel(NewFunction(nm, text))),
                  node)

\* what visitNode makes a FunctionClass of at node: a named function
\* declaration, a named method, or a variable bound to an arrow function
Found(nm, text, node) == [name |-> nm, text |-> text, node |-> node]

FunctionsAt(node) ==
    IF node.kind = "FunctionDeclaration" /\ HasName(node)
    THEN <<Found(NameOf(node), node.fullText, node)>>
    ELSE IF node.kind = "MethodDeclaration" /\ HasName(node)
    THEN <<Found(NameOf(node), node.fullText, node)>>
    ELSE IF /\ node.kind = "VariableDeclaration"
            /\ HasInitializer(node)
            /\ Initializer(node).kind = "ArrowFunction"
            /\ HasName(node)
    THEN <<Found(NameOf(node), Initializer(node).fullText, Initializer(node))>>
    ELSE <<>>

AnalysesOf(found) ==
    [k \in 1..Len(found) |->
        FunctionAnalysis(found[k].name, found[k].text, found[k].node)]

\* visitNode of analyzeFile over the i-th and later children: the entries
\* pushed, in order
RECURSIVE VisitFrom(_, _)
VisitFrom(children, i) ==
    IF i > Len(children) THEN <<>>
    ELSE AnalysesOf(FunctionsAt(children[i]))
             \o VisitFrom(children[i].children, 1)
             \o VisitFrom(children, i + 1)

\* the overall clean level with the weights the other way round
OverallCleanLevelSwapped(fileCleanLevel, cleanLevels) ==
    LET sum[i \in 0..Len(cleanLevels)] ==
            IF i = 0 THEN 0 ELSE sum[i - 1] + cleanLevels[i]
        avgFunctionCleanLevel ==
            IF Len(cleanLevels) > 0 THEN Ratio(sum[Len(cleanLevels)], Len(cleanLevels))
            ELSE Ratio(100, 1)
    IN  Plus(Scale(Ratio(fileCleanLevel, 1), 6, 10),
             Scale(avgFunctionCleanLevel, 4, 10))

\* fileCleanLevel * 0.4 + avgFunctionCleanLevel * 0.6, the average being 100
\* when there are no functions
OverallCleanLevel(fileCleanLevel, cleanLevels) ==
    LET sum[i \in 0..Len(cleanLevels)] ==
            IF i = 0 THEN 0 ELSE sum[i - 1] + cleanLevels[i]
        avgFunctionCleanLevel ==
            IF Len(cleanLevels) > 0 THEN Ratio(sum[Len(cleanLevels)], Len(cleanLevels))
            ELSE Ratio(100, 1)
    IN  Plus(Scale(Ratio(fileCleanLevel, 1), 4, 10),
             Scale(avgFunctionCleanLevel, 6, 10))

\* new FileClass(fileName, fileContent.length, fileContent)
NewFile(fileName, text) ==
    [name |-> fileName, code |-> text, stinkLevel |-> 0, issues |-> <<>>]

\* fileObj as checkDuplicateCode leaves it when it pushes found
Charged(file, found) ==
    [file EXCEPT !.stinkLevel = @ + DUPLICATE_CODE_DEDUCTION * Len(found),
                 !.issues = @ \o found]

\* fileObj.checkDuplicateCode()
CheckDuplicateCode(file) == Charged(file, DuplicateIssues(file.code))

\* fileObj.getCleanLevel(): it runs checkDuplicateCode before it scores
GetCleanLevelOfFile(file) == CheckDuplicateCode(file)

\* the FileAnalysis analyzeFile returns for the file and the entries pushed
FileAnalysis(file, functionAnalyses) ==
    [file |-> file,
     functions |-> functionAnalyses,
     overallCleanLevel |->
         OverallCleanLevel(CleanScore(file.stinkLevel),
             [i \in 1..Len(functionAnalyses) |-> functionAnalyses[i].cleanLevel])]

\* analyzeFile(filePath)
AnalyzeFile(fileName) ==
    FileAnalysis(
        GetCleanLevelOfFile(CheckDuplicateCode(
            NewFile(fileName, ReadFile(fileName).text))),
        VisitFrom(ReadFile(fileName).tree.children, 1))

\* analyze: the totals over the analyses of one run
TotalCleanLevel(analyses) ==
    LET total[i \in 0..Len(analyses)] ==
            IF i = 0 THEN Ratio(0, 1)
            ELSE Plus(total[i - 1], analyses[i].overallCleanLevel)
    IN  total[Len(analyses)]

TotalFunctions(analyses) ==
    LET total[i \in 0..Len(analyses)] ==
            IF i = 0 THEN 0 ELSE total[i - 1] + Len(analyses[i].functions)
    IN  total[Len(analyses)]

FunctionIssues(functions) ==
    LET total[k \in 0..Len(functions)] ==
            IF k = 0 THEN 0 ELSE total[k - 1] + Len(functions[k].issues)
    IN  total[Len(functions)]

TotalIssues(analyses) ==
    LET total[i \in 0..Len(analyses)] ==
            IF i = 0 THEN 0
            ELSE total[i - 1] + FunctionIssues(analyses[i].functions)
    IN  total[Len(analyses)]

\* this.results as analyze leaves it
Analyzed(files, analyses) ==
    [files |-> files \o analyses,
     averageCleanLevel |->
         Scale(TotalCleanLevel(analyses), 1, Max(1, Len(analyses))),
     fileCount |-> Len(analyses),
     functionCount |-> TotalFunctions(analyses),
     issueCount |-> TotalIssues(analyses)]

\* countFileIssues(fileAnalysis)
VariableIssues(variables) ==
    LET total[k \in 0..Len(variables)] ==
            IF k = 0 THEN 0 ELSE total[k - 1] + Len(variables[k].issues)
    IN  total[Len(variables)]

CountFunctionIssues(functions) ==
    LET total[k \in 0..Len(functions)] ==
            IF k = 0 THEN 0
            ELSE total[k - 1] + Len(functions[k].issues)
                     + VariableIssues(functions[k].variables)
    IN  total[Len(functions)]

CountFileIssues(fileAnalysis) ==
    Len(fileAnalysis.file.issues) + CountFunctionIssues(fileAnalysis.functions)

\* getAllFileIssues(fileAnalysis)
AllVariableIssues(variables) ==
    LET all[k \in 0..Len(variables)] ==
            IF k = 0 THEN <<>> ELSE all[k - 1] \o variables[k].issues
    IN  all[Len(variables)]

AllFunctionIssues(functions) ==
    LET all[k \in 0..Len(functions)] ==
            IF k = 0 THEN <<>>
            ELSE all[k - 1] \o functions[k].issues
                     \o AllVariableIssues(functions[k].variables)
    IN  all[Len(functions)]

GetAllFileIssues(fileAnalysis) ==
    fileAnalysis.file.issues \o AllFunctionIssues(fileAnalysis.functions)

\* groupSimilarIssues(issues): the distinct issues in the order they first
\* come, each with the number of times it comes
GroupSimilarIssues(found) ==
    LET first == {k \in 1..Len(found) : \A m \in 1..(k - 1) : found[m] # found[k]}
        nth(n) == CHOOSE k \in first : Cardinality({m \in first : m <= k}) = n
    IN  [n \in 1..Cardinality(first) |->
            [issue |-> found[nth(n)],
             count |-> Cardinality({m \in 1..Len(found) : found[m] = found[nth(n)]})]]

\* Object.entries(issueGroups).slice(0, 5)
TopIssues(groups) ==
    SubSeq(groups, 1, IF Len(groups) < 5 THEN Len(groups) ELSE 5)

\* value.toFixed(1), in tenths
ToFixed1(ratio) == (20 * ratio.num + ratio.den) \div (2 * ratio.den)

\* [...files].sort((a, b) => a.overallCleanLevel - b.overallCleanLevel): the
\* sort keeps the order of files that compare equal
Before(a, b) ==
    a.overallCleanLevel.num * b.overallCleanLevel.den
        <= b.overallCleanLevel.num * a.overallCleanLevel.den

InsertSorted(sorted, a) ==
    LET at == Cardinality({k \in 1..Len(sorted) : Before(sorted[k], a)})
    IN  SubSeq(sorted, 1, at) \o <<a>> \o SubSeq(sorted, at + 1, Len(sorted))

RECURSIVE SortedUpTo(_, _)
SortedUpTo(files, n) ==
    IF n = 0 THEN <<>> ELSE InsertSorted(SortedUpTo(files, n - 1), files[n])

SortedFiles(files) == SortedUpTo(files, Len(files))

\* the lines generateReport writes for one file
FileSection(fileAnalysis, issueCount) ==
    [name |-> fileAnalysis.file.name,
     cleanLevel |-> ToFixed1(fileAnalysis.overallCleanLevel),
     functions |-> Len(fileAnalysis.functions),
     issues |-> issueCount,
     top |-> IF issueCount > 0
             THEN TopIssues(GroupSimilarIssues(GetAllFileIssues(fileAnalysis)))
             ELSE <<>>]

FileSections(sortedFiles) ==
    [k \in 1..Len(sortedFiles) |->
        FileSection(sortedFiles[k], CountFileIssues(sortedFiles[k]))]

\* generateReport(): what it returns for this.results
GenerateReport(analysed) ==
    IF Len(analysed.files) = 0 THEN NoReport
    ELSE Report(TRUE,
                Summary(analysed.fileCount, analysed.functionCount,
                        analysed.issueCount,
                        ToFixed1(analysed.averageCleanLevel)),
                FileSections(SortedFiles(analysed.files)))

\* analyzeDirectory(directory): a new analyzer's analyze()
AnalyzeDirectory(tsFiles) ==
    Analyzed(<<>>, [i \in 1..Len(tsFiles) |-> AnalyzeFile(tsFiles[i])])

\* generateReportForDirectory(directory)
GenerateReportForDirectory(tsFiles) == GenerateReport(AnalyzeDirectory(tsFiles))

\* the four branches of main's interpretation
Interpretation(averageCleanLevel) ==
    IF averageCleanLevel.num > 90 * averageCleanLevel.den
    THEN "Your code is very clean"
    ELSE IF averageCleanLevel.num > 75 * averageCleanLevel.den
    THEN "Your code is reasonably clean"
    ELSE IF averageCleanLevel.num > 60 * averageCleanLevel.den
    THEN "Your code has moderate stink"
    ELSE "Your code has significant stink"

\* new FileClass(name, size, code)
InitFile ==
    /\ kind = "file"
    /\ name = "a.ts"
    /\ code \in FileCodes
    /\ functionCode = ""
    /\ value = NoValue
    /\ stinkLevel = 0
    /\ issues = <<>>
    /\ hasHighLevelAbstraction = FALSE
    /\ hasLowLevelAbstraction = FALSE
    /\ directory = <<>>
    /\ results = NoResults
    /\ report = NoReport
    /\ printed = ""
    /\ last = NoCall
    /\ calls = 0

\* new FunctionClass(name, codeFile, functionCode)
InitFunction ==
    /\ kind = "function"
    /\ \E sample \in FunctionSamples :
          /\ name = sample.name
          /\ functionCode = sample.functionCode
    /\ code = ""
    /\ value = NoValue
    /\ stinkLevel = 0
    /\ issues = <<>>
    /\ hasHighLevelAbstraction = FALSE
    /\ hasLowLevelAbstraction = FALSE
    /\ directory = <<>>
    /\ results = NoResults
    /\ report = NoReport
    /\ printed = ""
    /\ last = NoCall
    /\ calls = 0

\* new VariableClass(name, value, functionClass)
InitVariable ==
    /\ kind = "variable"
    /\ name \in VariableNames
    /\ value \in Values
    /\ code = ""
    /\ functionCode = ""
    /\ stinkLevel = 0
    /\ issues = <<>>
    /\ hasHighLevelAbstraction = FALSE
    /\ hasLowLevelAbstraction = FALSE
    /\ directory = <<>>
    /\ results = NoResults
    /\ report = NoReport
    /\ printed = ""
    /\ last = NoCall
    /\ calls = 0

\* new CodeQualityAnalyzer({directory})
InitAnalyzer ==
    /\ kind = "analyzer"
    /\ name = ""
    /\ code = ""
    /\ functionCode = ""
    /\ value = NoValue
    /\ stinkLevel = 0
    /\ issues = <<>>
    /\ hasHighLevelAbstraction = FALSE
    /\ hasLowLevelAbstraction = FALSE
    /\ directory \in Directories
    /\ results = NoResults
    /\ report = NoReport
    /\ printed = ""
    /\ last = NoCall
    /\ calls = 0

\* the command line tool started on a directory
InitCli ==
    /\ kind = "cli"
    /\ name = ""
    /\ code = ""
    /\ functionCode = ""
    /\ value = NoValue
    /\ stinkLevel = 0
    /\ issues = <<>>
    /\ hasHighLevelAbstraction = FALSE
    /\ hasLowLevelAbstraction = FALSE
    /\ directory \in Directories
    /\ results = NoResults
    /\ report = NoReport
    /\ printed = ""
    /\ last = NoCall
    /\ calls = 0

-----------------------------------------------------------------------------
(* The public operations.                                                  *)

\* FileClass.checkDuplicateCode
FileCheckDuplicateCode ==
    /\ kind = "file"
    /\ stinkLevel <= MaxStink
    /\ LET found == DuplicateIssues(code)
       IN  /\ stinkLevel' = stinkLevel + DUPLICATE_CODE_DEDUCTION * Len(found)
           /\ issues' = issues \o found
           /\ last' = Call("checkDuplicateCode", -1, Len(found) > 0)
    /\ UNCHANGED <<kind, name, code, functionCode, value, directory, results,
                   report, printed,
                   hasHighLevelAbstraction, hasLowLevelAbstraction, calls>>

\* FileClass.getCleanLevel
FileGetCleanLevel ==
    /\ kind = "file"
    /\ stinkLevel <= MaxStink
    /\ LET found == DuplicateIssues(code)
           stink == stinkLevel + DUPLICATE_CODE_DEDUCTION * Len(found)
       IN  /\ stinkLevel' = stink
           /\ issues' = issues \o found
           /\ last' = Call("getCleanLevel", CleanScore(stink), FALSE)
    /\ UNCHANGED <<kind, name, code, functionCode, value, directory, results,
                   report, printed,
                   hasHighLevelAbstraction, hasLowLevelAbstraction, calls>>

\* a public call on the function or variable under test: it pushes hits and
\* returns ret (the number returned, -1 when it returns none) and ok (the
\* boolean returned, FALSE when it returns none)
Apply(op, hits, ret, ok) ==
    /\ calls < MaxCalls
    /\ calls' = calls + 1
    /\ stinkLevel' = stinkLevel + Penalty(hits)
    /\ issues' = issues \o IssuesOf(hits)
    /\ last' = Call(op, ret, ok)
    /\ UNCHANGED <<kind, name, code, functionCode, value, directory, results,
                   report, printed>>

\* one rule of FunctionClass that leaves the abstraction flags alone, called
\* with the instance's own functionCode
FunctionRule(op, hits) ==
    /\ kind = "function"
    /\ Apply(op, hits, -1, FALSE)
    /\ UNCHANGED <<hasHighLevelAbstraction, hasLowLevelAbstraction>>

FunctionCheckNumberOfLines ==
    FunctionRule("checkNumberOfLines", LinesHits(name, Chars(functionCode)))

FunctionCheckNumberOfBlocks ==
    FunctionRule("checkNumberOfBlocks", BlocksHits(name, Chars(functionCode)))

FunctionCheckNumberOfParameters ==
    FunctionRule("checkNumberOfParameters",
                 ParametersHits(name, Chars(functionCode)))

FunctionCheckName ==
    FunctionRule("checkName", NameHits(name))

FunctionCheckBooleanParameters ==
    FunctionRule("checkBooleanParameters",
                 BooleanHits(name, Chars(functionCode)))

FunctionCheckGlobalVariables ==
    FunctionRule("checkGlobalVariables",
                 GlobalsHits(name, CreateSourceFile(functionCode)))

FunctionCheckMutableObjects ==
    FunctionRule("checkMutableObjects", MutableHits(name, Chars(functionCode)))

FunctionCheckConditionEncapsulation ==
    FunctionRule("checkConditionEncapsulation",
                 ConditionHits(name, Chars(functionCode)))

FunctionCheckNegativeConditionals ==
    FunctionRule("checkNegativeConditionals",
                 NegativeHits(name, Chars(functionCode)))

\* FunctionClass.checkAbstractionLevel
FunctionCheckAbstractionLevel ==
    /\ kind = "function"
    /\ LET flags == AbstractionFlags(CreateSourceFile(functionCode))
       IN  /\ Apply("checkAbstractionLevel", AbstractionHits(name, flags),
                    -1, FALSE)
           /\ hasHighLevelAbstraction' = flags.high
           /\ hasLowLevelAbstraction' = flags.low

\* FunctionClass.calculateStinkLevel
FunctionCalculateStinkLevel ==
    /\ kind = "function"
    /\ LET tree == CreateSourceFile(functionCode)
           flags == AbstractionFlags(tree)
           hits == PassHits(name, Chars(functionCode), tree)
       IN  /\ Apply("calculateStinkLevel", hits,
                    stinkLevel + Penalty(hits), FALSE)
           /\ hasHighLevelAbstraction' = flags.high
           /\ hasLowLevelAbstraction' = flags.low

\* FunctionClass.getStinkLevel
FunctionGetStinkLevel ==
    /\ kind = "function"
    /\ Apply("getStinkLevel", <<>>, stinkLevel, FALSE)
    /\ UNCHANGED <<hasHighLevelAbstraction, hasLowLevelAbstraction>>

\* FunctionClass.getCleanLevel
FunctionGetCleanLevel ==
    /\ kind = "function"
    /\ LET tree == CreateSourceFile(functionCode)
           fresh == FunctionNotScored(stinkLevel, issues)
           flags == IF fresh THEN AbstractionFlags(tree)
                    ELSE Flags(hasHighLevelAbstraction, hasLowLevelAbstraction)
           hits == IF fresh THEN PassHits(name, Chars(functionCode), tree)
                   ELSE <<>>
       IN  /\ Apply("getCleanLevel", hits,
                    CleanScore(stinkLevel + Penalty(hits)), FALSE)
           /\ hasHighLevelAbstraction' = flags.high
           /\ hasLowLevelAbstraction' = flags.low

\* VariableClass.checkDescriptiveName
VariableCheckDescriptiveName ==
    /\ kind = "variable"
    /\ LET hits == DescriptiveHits(name)
       IN  Apply("checkDescriptiveName", hits, -1, Len(hits) = 0)
    /\ UNCHANGED <<hasHighLevelAbstraction, hasLowLevelAbstraction>>

\* VariableClass.checkTypeConsistency
VariableCheckTypeConsistency ==
    /\ kind = "variable"
    /\ LET hits == TypeHits(name, value)
       IN  Apply("checkTypeConsistency", hits, -1, Len(hits) = 0)
    /\ UNCHANGED <<hasHighLevelAbstraction, hasLowLevelAbstraction>>

\* VariableClass.getStinkLevel
VariableGetStinkLevel ==
    /\ kind = "variable"
    /\ LET hits == VariableHits(name, value, stinkLevel)
       IN  Apply("getStinkLevel", hits, stinkLevel + Penalty(hits), FALSE)
    /\ UNCHANGED <<hasHighLevelAbstraction, hasLowLevelAbstraction>>

\* VariableClass.getCleanLevel
VariableGetCleanLevel ==
    /\ kind = "variable"
    /\ LET hits == VariableHits(name, value, stinkLevel)
       IN  Apply("getCleanLevel", hits,
                 CleanScore(stinkLevel + Penalty(hits)), FALSE)
    /\ UNCHANGED <<hasHighLevelAbstraction, hasLowLevelAbstraction>>

\* CodeQualityAnalyzer.analyze
Analyze ==
    /\ kind = "analyzer"
    /\ calls < MaxCalls
    /\ calls' = calls + 1
    /\ results' = Analyzed(results.files,
                      [i \in 1..Len(directory) |-> AnalyzeFile(directory[i])])
    /\ last' = Call("analyze", -1, FALSE)
    /\ UNCHANGED <<kind, name, code, functionCode, value, stinkLevel, issues,
                   hasHighLevelAbstraction, hasLowLevelAbstraction, directory,
                   report, printed>>

\* CodeQualityAnalyzer.generateReport
AnalyzerGenerateReport ==
    /\ kind = "analyzer"
    /\ calls < MaxCalls
    /\ calls' = calls + 1
    /\ report' = GenerateReport(results)
    /\ last' = Call("generateReport", -1, FALSE)
    /\ UNCHANGED <<kind, name, code, functionCode, value, stinkLevel, issues,
                   hasHighLevelAbstraction, hasLowLevelAbstraction, directory,
                   results, printed>>

\* main of the command line tool: the analysis, the report, the
\* interpretation of the average
CliMain ==
    /\ kind = "cli"
    /\ calls = 0
    /\ calls' = 1
    /\ results' = AnalyzeDirectory(directory)
    /\ report' = GenerateReportForDirectory(directory)
    /\ printed' = Interpretation(results'.averageCleanLevel)
    /\ last' = Call("main", -1, FALSE)
    /\ UNCHANGED <<kind, name, code, functionCode, value, stinkLevel, issues,
                   hasHighLevelAbstraction, hasLowLevelAbstraction, directory>>

-----------------------------------------------------------------------------
(* Specifications.                                                         *)

FileNext == FileCheckDuplicateCode \/ FileGetCleanLevel

FunctionNext ==
    \/ FunctionCheckNumberOfLines
    \/ FunctionCheckNumberOfBlocks
    \/ FunctionCheckNumberOfParameters
    \/ FunctionCheckName
    \/ FunctionCheckAbstractionLevel
    \/ FunctionCheckBooleanParameters
    \/ FunctionCheckGlobalVariables
    \/ FunctionCheckMutableObjects
    \/ FunctionCheckConditionEncapsulation
    \/ FunctionCheckNegativeConditionals
    \/ FunctionCalculateStinkLevel
    \/ FunctionGetStinkLevel
    \/ FunctionGetCleanLevel

VariableNext ==
    \/ VariableCheckDescriptiveName
    \/ VariableCheckTypeConsistency
    \/ VariableGetStinkLevel
    \/ VariableGetCleanLevel

\* one instance of any of the three classes, or one analyzer, and every
\* sequence of its public operations
AnalyzerNext == Analyze \/ AnalyzerGenerateReport

Init == InitFile \/ InitFunction \/ InitVariable \/ InitAnalyzer \/ InitCli
Next == FileNext \/ FunctionNext \/ VariableNext \/ AnalyzerNext \/ CliMain
Spec == Init /\ [][Next]_vars

\* one FileClass instance
SpecFile == InitFile /\ [][FileNext]_vars

\* one FunctionClass instance
SpecFunction == InitFunction /\ [][FunctionNext]_vars

\* one VariableClass instance
SpecVariable == InitVariable /\ [][VariableNext]_vars

\* one CodeQualityAnalyzer over a directory
SpecAnalyzer == InitAnalyzer /\ [][AnalyzerNext]_vars

\* one run of the command line tool over a directory
SpecCli == InitCli /\ [][CliMain]_vars

\* the three classes of models.ts, without the analyzer
ClassesInit == InitFile \/ InitFunction \/ InitVariable
ClassesNext == FileNext \/ FunctionNext \/ VariableNext
SpecClasses == ClassesInit /\ [][ClassesNext]_vars

\* fresh function and variable instances on which only getCleanLevel is
\* called, again and again
SpecGetCleanLevel ==
    (InitFunction \/ InitVariable)
        /\ [][FunctionGetCleanLevel \/ VariableGetCleanLevel]_vars

-----------------------------------------------------------------------------
(* Properties.                                                             *)

FileLines == Split(Chars(code), "\n")

\* C1: two calls of FileClass.getCleanLevel in a row return the same score
\* and leave the same issue list, whatever was called before them.
C1_FileGetCleanLevelIdempotent ==
    [][(last.op = "getCleanLevel" /\ last'.op = "getCleanLevel")
          => (last'.ret = last.ret /\ issues' = issues)]_vars

\* C2: two calls of FunctionClass.calculateStinkLevel in a row return the
\* same stink level and leave the same issue list.
C2_CalculateStinkLevelIdempotent ==
    [][(last.op = "calculateStinkLevel" /\ last'.op = "calculateStinkLevel")
          => (last'.ret = last.ret /\ issues' = issues)]_vars

\* C3: on a fresh function or variable, every getCleanLevel call after the
\* first returns the score of the call before it and leaves the issue list
\* as that call left it.
C3_RepeatedGetCleanLevel ==
    [][(kind \in {"function", "variable"} /\ last.op = "getCleanLevel")
          => /\ last'.op = "getCleanLevel"
             /\ last'.ret = last.ret
             /\ issues' = issues
             /\ stinkLevel' = stinkLevel]_vars

\* a function with issues on which getCleanLevel has been called twice
C3_Witness ==
    /\ kind = "function"
    /\ calls = 2
    /\ last.op = "getCleanLevel"
    /\ Len(issues) > 0
    /\ last.ret = 100 - stinkLevel

\* C4: whatever has accumulated, getCleanLevel returns a value in 0..100.
C4_CleanLevelInRange ==
    last.op = "getCleanLevel" => (last.ret >= 0 /\ last.ret <= 100)

\* getCleanLevel has returned with more than 100 points of penalty held
C4_Witness ==
    last.op = "getCleanLevel" /\ stinkLevel > 100 /\ last.ret = 0

\* C5: no operation lowers stinkLevel, and getCleanLevel returns
\* max(0, 100 - stinkLevel) for the stinkLevel held when it returns.
C5_MonotoneAndScore ==
    [][/\ stinkLevel' >= stinkLevel
       /\ last'.op = "getCleanLevel"
             => last'.ret = (IF stinkLevel' > 100 THEN 0 ELSE 100 - stinkLevel')]_vars

\* a variable that a scoring call has penalised, its score read afterwards
C5_Witness ==
    /\ kind = "variable"
    /\ last.op = "getCleanLevel"
    /\ calls = 2
    /\ stinkLevel = TYPE_MISMATCH_DEDUCTION
    /\ last.ret = 85

\* the file is a five-line block, s separator lines none of which is a line
\* of the block, and the block again
IsBlockTwice(lines, s) ==
    /\ s >= 1
    /\ Len(lines) = 10 + s
    /\ \A k \in 1..5 : lines[k] = lines[5 + s + k]
    /\ \A k \in 6..(5 + s) : \A m \in 1..5 : lines[k] # lines[m]

\* the number of characters of the first five lines put together, less the
\* white space at both ends
FirstBlockSize(lines) == Len(Trim(Join(SubSeq(lines, 1, 5), "\n")))

\* C6: on a file made of a block of at least 20 trimmed characters, s >= 1
\* unrelated lines and the block again, checkDuplicateCode returns true and
\* the issues name lines 1-5 and (6+s)-(10+s).
C6_BlockTwiceReported ==
    \A s \in 1..(Len(FileLines) - 10) :
        (/\ last.op = "checkDuplicateCode"
         /\ IsBlockTwice(FileLines, s)
         /\ FirstBlockSize(FileLines) >= 20)
        => /\ last.ok
           /\ \E n \in 1..Len(issues) :
                 /\ issues[n].msg = "Duplicate code block found at lines"
                 /\ issues[n].args = <<1, 5, 6 + s, 10 + s>>

\* checkDuplicateCode has run on a block repeated after two separator lines
C6_Witness ==
    /\ last.op = "checkDuplicateCode"
    /\ IsBlockTwice(FileLines, 2)
    /\ FirstBlockSize(FileLines) >= 20
    /\ Len(issues) = 1

\* no two five-line windows that start five or more lines apart are the same
NoRepeatedWindow(lines) ==
    \A i \in 0..(Len(lines) - 5) : \A j \in (i + 5)..(Len(lines) - 5) :
        SubSeq(lines, i + 1, i + 5) # SubSeq(lines, j + 1, j + 5)

\* the second five lines are the first five with one character changed
IsNearRepeat(lines) ==
    /\ Len(lines) >= 10
    /\ Cardinality({k \in 1..5 : lines[k] # lines[Len(lines) - 5 + k]}) = 1
    /\ \A k \in 1..5 :
          LET a == lines[k]
              b == lines[Len(lines) - 5 + k]
          IN  /\ Len(a) = Len(b)
              /\ Cardinality({c \in 1..Len(a) : a[c] # b[c]}) <= 1

\* C7: a file without two identical five-line windows five or more lines
\* apart, and so every file of fewer than ten lines, is never penalised:
\* checkDuplicateCode returns false, stinkLevel stays 0, no issue is pushed.
C7_NoDuplicateNoPenalty ==
    (Len(FileLines) < 10 \/ NoRepeatedWindow(FileLines))
        => /\ stinkLevel = 0
           /\ issues = <<>>
           /\ last.op = "checkDuplicateCode" => ~last.ok

\* checkDuplicateCode has run on two blocks that differ in one character
C7_Witness ==
    /\ last.op = "checkDuplicateCode"
    /\ IsNearRepeat(FileLines)
    /\ NoRepeatedWindow(FileLines)
    /\ ~last.ok

\* the text between the first "(" and the ")" after it
FirstList(cs) ==
    LET open == Least({k \in 1..Len(cs) : cs[k] = "("})
        close == Least({k \in (open + 1)..Len(cs) : cs[k] = ")"})
    IN  SubSeq(cs, open + 1, close - 1)

HasFirstList(cs) ==
    \E open \in 1..Len(cs) : \E close \in (open + 1)..Len(cs) :
        cs[open] = "(" /\ cs[close] = ")"

IsBlank(cs) == \A k \in 1..Len(cs) : cs[k] \in WhiteSpace

\* the parameters of a list: its stretches between commas that are not blank
ListedParameters(list) ==
    Cardinality({k \in 0..Len(list) :
        /\ k = 0 \/ list[k] = ","
        /\ LET next == {m \in (k + 1)..Len(list) : list[m] = ","}
               stop == IF next = {} THEN Len(list) + 1 ELSE Least(next)
           IN  ~IsBlank(SubSeq(list, k + 1, stop - 1))})

\* a list of parameters with one comma between each two of them
IsParameterList(list) ==
    IsBlank(list) \/
        ListedParameters(list) = Cardinality({k \in 1..Len(list) : list[k] = ","}) + 1

KindOf(v) == v.tag

\* some marker is a proper prefix or suffix of the name and implies a kind
\* other than the value's
ImpliesOtherKind(nm, v) ==
    \E i \in 1..Len(VARIABLE_TYPE_MARKERS) :
        LET m == Chars(VARIABLE_TYPE_MARKERS[i].marker)
            cs == Chars(nm)
        IN  /\ Len(m) < Len(cs)
            /\ \/ SubSeq(cs, 1, Len(m)) = m
               \/ SubSeq(cs, Len(cs) - Len(m) + 1, Len(cs)) = m
            /\ VARIABLE_TYPE_MARKERS[i].type # KindOf(v)

\* C9: checkTypeConsistency adds 15 points and one issue exactly when a
\* marker is a proper prefix or suffix of the name and implies a kind other
\* than that of the bound value; isActive bound to a number is reported as
\* implying 'boolean' and holding 'number'.
C9_TypeMismatchExactly ==
    [][(last'.op = "checkTypeConsistency" /\ calls' = calls + 1)
       => IF ImpliesOtherKind(name, value)
          THEN /\ stinkLevel' = stinkLevel + 15
               /\ Len(issues') = Len(issues) + 1
               /\ (name = "isActive" /\ value.tag = "number")
                     => issues'[Len(issues')].names
                           = <<"isActive", "boolean", "number">>
          ELSE /\ stinkLevel' = stinkLevel
               /\ issues' = issues]_vars

\* the sum of the clean levels recorded for the functions of a file
CleanLevelSum(functions) ==
    LET sum[i \in 0..Len(functions)] ==
            IF i = 0 THEN 0 ELSE sum[i - 1] + functions[i].cleanLevel
    IN  sum[Len(functions)]

\* the clean level of an analysed file's FileClass
FileCleanLevelOf(analysis) ==
    IF analysis.file.stinkLevel > 100 THEN 0 ELSE 100 - analysis.file.stinkLevel

\* C10: the overallCleanLevel of every analysed file is 0.4 times the file's
\* clean level plus 0.6 times the mean of its functions' clean levels, the
\* mean being 100 when it has no functions; no functions and no duplicates
\* give 100, one function of clean level 50 and no duplicates give 70.
C10_OverallCleanLevel ==
    \A k \in 1..Len(results.files) :
        LET analysis == results.files[k]
            n == Len(analysis.functions)
            overall == analysis.overallCleanLevel
        IN  /\ n > 0 =>
                  overall.num * 10 * n
                      = overall.den * (4 * n * FileCleanLevelOf(analysis)
                                         + 6 * CleanLevelSum(analysis.functions))
            /\ n = 0 =>
                  overall.num * 10
                      = overall.den * (4 * FileCleanLevelOf(analysis) + 6 * 100)
            /\ (n = 0 /\ analysis.file.issues = <<>>) =>
                  overall.num = 100 * overall.den
            /\ (/\ n = 1
                /\ analysis.functions[1].cleanLevel = 50
                /\ analysis.file.issues = <<>>) =>
                  overall.num = 70 * overall.den

\* a directory has been analysed that holds a file without functions or
\* duplicates and a file whose one function has clean level 50
C10_Witness ==
    /\ last.op = "analyze"
    /\ \E j, k \in 1..Len(results.files) :
          /\ Len(results.files[j].functions) = 0
          /\ results.files[j].file.issues = <<>>
          /\ results.files[j].overallCleanLevel.num
                = 100 * results.files[j].overallCleanLevel.den
          /\ Len(results.files[k].functions) = 1
          /\ results.files[k].functions[1].cleanLevel = 50
          /\ results.files[k].file.issues = <<>>
          /\ results.files[k].overallCleanLevel.num
                = 70 * results.files[k].overallCleanLevel.den

\* the band the documentation gives a whole average clean level
DocumentedBand(s) ==
    IF s >= 90 THEN "Your code is very clean"
    ELSE IF s >= 75 THEN "Your code is reasonably clean"
    ELSE IF s >= 60 THEN "Your code has moderate stink"
    ELSE "Your code has significant stink"

\* C11: for every whole average clean level s in 0..100 the interpretation
\* main prints is the documented band of s: 90-100 very clean, 75-89
\* reasonably clean, 60-74 moderate stink, 0-59 significant stink.
C11_InterpretationBands ==
    last.op = "main" =>
        \A s \in 0..100 :
            results.averageCleanLevel.num = s * results.averageCleanLevel.den
                => printed = DocumentedBand(s)

\* the variables of every function entry of the results, as a set of
\* <<file, function, variable>> positions
ResultVariables ==
    {<<k, f, v>> \in (1..Len(results.files)) \X (1..4) \X (1..4) :
        /\ f <= Len(results.files[k].functions)
        /\ v <= Len(results.files[k].functions[f].variables)}

VariableAt(p) == results.files[p[1]].functions[p[2]].variables[p[3]]

\* C12: when analyze() has completed, every extracted variable has been
\* scored: it carries the penalty and the issues that its naming check and
\* then its type check give for its name and value.
C12_VariablesScored ==
    last.op = "analyze" =>
        \A p \in ResultVariables :
            /\ VariableAt(p).stinkLevel
                   = Penalty(VariableHits(VariableAt(p).name, VariableAt(p).value, 0))
            /\ VariableAt(p).issues
                   = IssuesOf(VariableHits(VariableAt(p).name, VariableAt(p).value, 0))

\* the five lines from start index i on, i counted from 0
Window(lines, i) == SubSeq(lines, i + 1, i + 5)

\* the start indices at least five after i whose window repeats the one at i
RepeatsOf(lines, i) ==
    {j \in (i + 5)..(Len(lines) - 5) : Window(lines, j) = Window(lines, i)}

\* the start indices whose window has 20 or more trimmed characters and is
\* repeated five or more lines further on
RepeatedStarts(lines) ==
    {i \in 0..(Len(lines) - 5) :
        /\ Len(Trim(Join(Window(lines, i), "\n"))) >= 20
        /\ RepeatsOf(lines, i) # {}}

SmallestRepeat(lines, i) ==
    CHOOSE j \in RepeatsOf(lines, i) : \A k \in RepeatsOf(lines, i) : j <= k

RECURSIVE DeclarationsFrom(_, _)
DeclarationsFrom(children, i) ==
    IF i > Len(children) THEN 0
    ELSE (IF children[i].kind = "VariableDeclaration"
             /\ Len(children[i].children) > 0
             /\ children[i].children[1].kind = "Identifier"
          THEN 1 ELSE 0)
             + DeclarationsFrom(children[i].children, 1)
             + DeclarationsFrom(children, i + 1)

\* the variable declarations written in a file
DeclarationsIn(fileName) == DeclarationsFrom(ReadFile(fileName).tree.children, 1)

\* C14: every variable declaration of a file gives a variable to at most one
\* of the file's function entries, so a file's entries never hold more
\* variables than the file has declarations: what a nested function declares
\* is not collected for the function around it as well.
C14_VariableOfOneFunction ==
    last.op = "analyze" =>
        \A k \in 1..Len(results.files) :
            Cardinality({p \in ResultVariables : p[1] = k})
                <= DeclarationsIn(results.files[k].file.name)

\* the function nodes extraction captures among the i-th and later children
\* and below them, in the order of the traversal: function declarations,
\* class methods, and arrow functions bound to a variable
RECURSIVE CapturedFrom(_, _)
CapturedFrom(children, i) ==
    IF i > Len(children) THEN <<>>
    ELSE LET node == children[i]
         IN  (IF node.kind \in {"FunctionDeclaration", "MethodDeclaration"}
              THEN <<node>>
              ELSE IF /\ node.kind = "VariableDeclaration"
                      /\ node.children[Len(node.children)].kind = "ArrowFunction"
              THEN <<node.children[Len(node.children)]>>
              ELSE <<>>)
                 \o CapturedFrom(node.children, 1)
                 \o CapturedFrom(children, i + 1)

\* whether a node of one of the kinds lies among the i-th and later children
\* or below them
RECURSIVE ContainsFrom(_, _, _)
ContainsFrom(children, i, kinds) ==
    /\ i <= Len(children)
    /\ \/ children[i].kind \in kinds
       \/ ContainsFrom(children[i].children, 1, kinds)
       \/ ContainsFrom(children, i + 1, kinds)

\* the statements of a function node's body
BodyStatements(node) ==
    node.children[CHOOSE i \in 1..Len(node.children) :
                      node.children[i].kind = "Block"].children

\* the body holds a call expression and a variable or expression statement
MixesLevels(node) ==
    /\ ContainsFrom(BodyStatements(node), 1, {"CallExpression"})
    /\ ContainsFrom(BodyStatements(node), 1,
                    {"VariableStatement", "ExpressionStatement"})

\* the abstraction issues among the issues of a function
MixingIssues(found) ==
    {n \in 1..Len(found) :
        found[n].msg = "Function mixes different levels of abstraction"}

\* C15: every captured function, be it a declaration, a class method or an
\* arrow function bound to a variable, has the abstraction issue once when
\* its body holds both a call expression and a variable or expression
\* statement, and not at all otherwise.
C15_AbstractionOfEveryFunction ==
    last.op = "analyze" =>
        \A k \in 1..Len(results.files) :
            LET captured ==
                    CapturedFrom(ReadFile(results.files[k].file.name).tree.children, 1)
            IN  \A f \in 1..Len(results.files[k].functions) :
                    Cardinality(MixingIssues(results.files[k].functions[f].issues))
                        = IF MixesLevels(captured[f]) THEN 1 ELSE 0

\* no "(" of the text has a ")" after it
NoParenthesisPair(cs) ==
    ~\E a, b \in 1..Len(cs) : a < b /\ cs[a] = "(" /\ cs[b] = ")"

\* what the rules of calculateStinkLevel other than the two parameter rules
\* add, in its order
OtherRulesHits(nm, cs, tree) ==
    LinesHits(nm, cs) \o BlocksHits(nm, cs) \o NameHits(nm)
        \o AbstractionHits(nm, AbstractionFlags(tree)) \o GlobalsHits(nm, tree)
        \o MutableHits(nm, cs) \o ConditionHits(nm, cs) \o NegativeHits(nm, cs)

\* C16: on a function text without a "(" ... ")" pair,
\* checkNumberOfParameters and checkBooleanParameters change neither
\* stinkLevel nor the issues, and calculateStinkLevel adds what its other
\* eight rules add, the ones after the parameter rules included.
C16_NoParenthesesNoParameterRules ==
    [][(kind = "function" /\ NoParenthesisPair(Chars(functionCode)))
          => /\ last'.op \in {"checkNumberOfParameters", "checkBooleanParameters"}
                  => (stinkLevel' = stinkLevel /\ issues' = issues)
             /\ last'.op = "calculateStinkLevel"
                  => LET others == OtherRulesHits(name, Chars(functionCode),
                                       CreateSourceFile(functionCode))
                     IN  /\ stinkLevel' = stinkLevel + Penalty(others)
                         /\ issues' = issues \o IssuesOf(others)]_vars

\* calculateStinkLevel has run on a text without parentheses that says
\* "bool" and reads a global: only the global is charged
C16_Witness ==
    /\ kind = "function"
    /\ NoParenthesisPair(Chars(functionCode))
    /\ BooleanMatchAnywhere(Chars(functionCode))
    /\ last.op = "calculateStinkLevel"
    /\ stinkLevel = GLOBAL_VARIABLE_DEDUCTION
    /\ Len(issues) = 1
    /\ issues[1].msg = "Function uses global variables"

\* the one-letter names in common use
CommonLetters == {"i", "j", "k", "x", "y", "z"}

\* C17: checkDescriptiveName leaves a variable named i, j, k, x, y or z
\* without penalty or issue, and charges every other name of one character,
\* and the empty name, 10 points and one issue.
C17_CommonLettersExempt ==
    [][(kind = "variable" /\ last'.op = "checkDescriptiveName")
          => /\ name \in CommonLetters
                  => (stinkLevel' = stinkLevel /\ issues' = issues)
             /\ (Len(name) <= 1 /\ name \notin CommonLetters)
                  => /\ stinkLevel' = stinkLevel + 10
                     /\ Len(issues') = Len(issues) + 1]_vars

\* C18: a file, a function or a variable has no issues exactly when its
\* stinkLevel is 0, in every state; and every operation on one of them
\* appends issues exactly when it raises stinkLevel.
C18_IssuesIffStink ==
    /\ [](kind \in {"file", "function", "variable"}
             => ((issues = <<>>) <=> (stinkLevel = 0)))
    /\ [][(kind \in {"file", "function", "variable"})
             => (/\ Len(issues') >= Len(issues)
                 /\ stinkLevel' >= stinkLevel
                 /\ (Len(issues') > Len(issues)) <=> (stinkLevel' > stinkLevel))]_vars

\* checkNumberOfParameters has charged a function of four parameters
C18_Witness ==
    /\ kind = "function"
    /\ last.op = "checkNumberOfParameters"
    /\ calls = 1
    /\ ParameterCount(Chars(functionCode)) = MAX_PARAMETERS + 1
    /\ stinkLevel = MAX_PARAMETERS_VIOLATION_DEDUCTION
    /\ Len(issues) = 1

\* the issue counts of a report's file sections, added up
ReportedIssues(sections) ==
    LET sum[k \in 0..Len(sections)] ==
            IF k = 0 THEN 0 ELSE sum[k - 1] + sections[k].issues
    IN  sum[Len(sections)]

\* C19: after one analyze() on a new analyzer, results.issueCount, and with
\* it the issue total of the report's summary, is the sum of the issue
\* counts the report gives file by file.
C19_IssueCountIsSumOfFiles ==
    (last.op = "generateReport" /\ calls = 2 /\ report.done)
        => /\ results.issueCount = ReportedIssues(report.files)
           /\ report.summary.issues = ReportedIssues(report.files)

\* C20: however often analyze() has been called, results.files holds
\* results.fileCount entries, and a report lists as many files, each once.
C20_FilesMatchFileCount ==
    /\ Len(results.files) = results.fileCount
    /\ report.done
           => /\ Len(report.files) = results.fileCount
              /\ \A j, k \in 1..Len(report.files) :
                    report.files[j].name = report.files[k].name => j = k

====
